---- MODULE Spec2Model ----
(***************************************************************************)
(* Model of the error reporter (robot_framework/exceptions.py) and the     *)
(* ServiceNow incident handler (robot_framework/servicenow_handler.py).    *)
(*                                                                         *)
(* Strings that the code slices or serializes are sequences of one-        *)
(* character strings.  Every call the code makes on the orchestrator       *)
(* connection, the e-mail helper or the HTTP library either returns or     *)
(* raises; an HTTP call that returns carries a status code.                *)
(***************************************************************************)
EXTENDS Integers, Sequences, FiniteSets, TLC

-----------------------------------------------------------------------------
(* Bounds of the model *)

NumWorkers == 2     \* process instances that may report failures
MaxCalls == 2       \* calls made in one behaviour
LongBase == 900     \* shortest "long" exception text
LongSpread == 8     \* long texts have LongBase .. LongBase + LongSpread characters

(* Program constants *)

HeadLen == 500        \* error_msg[:500]
TailLen == 490        \* error_msg[-490:]
MaxMsgLen == 1000     \* len(error_msg) > 1000
SysparmLimit == 50    \* sysparm_limit=50
ResolvedState == 6    \* state!=6

None == "<None>"

\* an optional sys_id: None, or the sys_id
NoSysId == <<>>
SysId(i) == <<i>>
MAX_RETRY_COUNT == "3"
APPLICATION_EXCEPTION == "ApplicationException"

Workers == 1..NumWorkers
\* the worker of the single-threaded specifications
MainWorker == CHOOSE w \in Workers : \A v \in Workers : w <= v

Min(a, b) == IF a < b THEN a ELSE b
Max(a, b) == IF a > b THEN a ELSE b

-----------------------------------------------------------------------------
(* Characters and texts *)

Patterns == << <<"a">>, <<"e", "\"", "r">>, <<"x", "\n", "\\", "y">> >>

\* an exception text of n characters following pattern p
TextOf(n, p) == [i \in 1..n |-> Patterns[p][((i - 1) % Len(Patterns[p])) + 1]]

MessageChars(m) ==
    CASE m = APPLICATION_EXCEPTION ->
           <<"A","p","p","l","i","c","a","t","i","o","n",
             "E","x","c","e","p","t","i","o","n">>
      [] m = "BusinessError" ->
           <<"B","u","s","i","n","e","s","s","E","r","r","o","r">>
      [] OTHER -> <<"E","r","r","o","r">>

CountChars(c) == IF c = "2" THEN <<"2">> ELSE <<"3">>

BusinessErrorRepr ==
    <<"<","c","l","a","s","s"," ","'","r","o","b","o","t","_","f","r","a","m","e",
      "w","o","r","k",".","e","x","c","e","p","t","i","o","n","s",".",
      "B","u","s","i","n","e","s","s","E","r","r","o","r","'",">">>

\* str(error): the text of an exception instance, the repr of a class
Str(error) ==
    IF error.kind = "BusinessErrorClass" THEN BusinessErrorRepr
    ELSE TextOf(error.len, error.pat)

ClassName(error) ==
    IF error.kind = "Exception" THEN <<"E","x","c","e","p","t","i","o","n">>
    ELSE <<"B","u","s","i","n","e","s","s","E","r","r","o","r">>

\* traceback.format_exc(): the exception being handled, if any
FormatExc(error, active) ==
    IF active
    THEN <<"T","r","a","c","e","b","a","c","k",":","\n"," "," ",
           "F","i","l","e"," ","\"","p",".","p","y","\"","\n">>
         \o ClassName(error) \o <<":", " ">> \o Str(error) \o <<"\n">>
    ELSE <<"N","o","n","e","T","y","p","e",":"," ","N","o","n","e","\n">>

-----------------------------------------------------------------------------
(* json.dumps(error_dict, ensure_ascii=False) *)

JsonEscapeChar(c) ==
    CASE c = "\"" -> <<"\\", "\"">>
      [] c = "\\" -> <<"\\", "\\">>
      [] c = "\n" -> <<"\\", "n">>
      [] OTHER -> <<c>>

RECURSIVE JsonEscape(_)
JsonEscape(s) ==
    IF Len(s) = 0 THEN <<>>
    ELSE IF Len(s) = 1 THEN JsonEscapeChar(s[1])
    ELSE LET h == Len(s) \div 2
         IN JsonEscape(SubSeq(s, 1, h)) \o JsonEscape(SubSeq(s, h + 1, Len(s)))

JsonString(s) == <<"\"">> \o JsonEscape(s) \o <<"\"">>

JsonValue(v, chars) ==
    IF v = None THEN <<"n","u","l","l">> ELSE JsonString(chars)

JsonDumps(d) ==
    <<"{">> \o JsonString(<<"t","y","p","e">>) \o <<":", " ">>
        \o JsonString(MessageChars(d.type))
    \o <<",", " ">> \o JsonString(<<"e","r","r","o","r","_","c","o","u","n","t">>)
        \o <<":", " ">> \o JsonValue(d.error_count, CountChars(d.error_count))
    \o <<",", " ">> \o JsonString(<<"m","e","s","s","a","g","e">>) \o <<":", " ">>
        \o JsonString(d.message)
    \o <<",", " ">> \o JsonString(<<"t","r","a","c","e">>) \o <<":", " ">>
        \o JsonString(d.trace)
    \o <<"}">>

-----------------------------------------------------------------------------
(* Python slices and the shortening of the serialized report *)

SliceHead(s, n) == SubSeq(s, 1, Min(n, Len(s)))
SliceTail(s, n) == SubSeq(s, Max(1, Len(s) - n + 1), Len(s))

Marker == <<" ", " ", "[", ".", ".", ".", "]", " ">>

ShortenTailTooLong(s) ==
    IF Len(s) > MaxMsgLen
    THEN SliceHead(s, HeadLen) \o Marker \o SliceTail(s, HeadLen)
    ELSE s

Shorten(s) ==
    IF Len(s) > MaxMsgLen
    THEN SliceHead(s, HeadLen) \o Marker \o SliceTail(s, TailLen)
    ELSE s

ErrorDict(message, error_count, error, active) ==
    [type |-> message, error_count |-> error_count,
     message |-> Str(error), trace |-> FormatExc(error, active)]

-----------------------------------------------------------------------------
(* State *)

VARIABLES
    pc,                       \* where each worker stands
    caller,                   \* who invoked handle_incident: "handle_error" or "direct"
    message,                  \* handle_error's argument message
    error_count,              \* handle_error's argument error_count
    error,                    \* handle_error's argument error
    queue_element,            \* handle_error's argument queue_element
    exc_active,               \* whether an exception is being handled at the call
    error_msg,                \* handle_error's local error_msg
    queue,                    \* status and message of the worker's queue element
    effects,                  \* the external calls of the current call, in order
    raised_at,                \* the first call that raised in the current call
    lookup_status,            \* status code of the lookup response
    lookup_results,           \* sys_ids of the lookup response's result list
    existing_incident_sys_id, \* handle_incident's local
    call_status,              \* status code of the response to the PUT or POST
    created,                  \* sys_id of the incident the worker's POST created
    incidents,                \* the incident table of the ticketing system
    lookup_failed,            \* some lookup so far got a non-200 response
    ncalls                    \* calls made so far

vars == <<pc, caller, message, error_count, error, queue_element, exc_active,
          error_msg, queue, effects, raised_at, lookup_status, lookup_results,
          existing_incident_sys_id, call_status, created, incidents, lookup_failed, ncalls>>

args == <<message, error_count, error, queue_element, exc_active>>
lookup == <<lookup_status, lookup_results, existing_incident_sys_id>>
http == <<lookup_status, lookup_results, existing_incident_sys_id, call_status>>

ProcessName(w) == "proc"

Rest == {"idle", "returned", "raised"}

NewQueueElement == [status |-> "IN_PROGRESS", message |-> <<>>]

\* an exception value: kind, and the length and pattern of its text
ErrorValue(k, n, p) == [kind |-> k, len |-> n, pat |-> p]

ErrorKinds == {"Exception", "BusinessError"}

\* the inputs of handle_error in the full specification
CallErrors ==
    {ErrorValue(k, 1, 1) : k \in ErrorKinds}
    \cup {ErrorValue("Exception", LongBase, 2),
          ErrorValue("BusinessErrorClass", 0, 1)}

CallArgs ==
    [message : {APPLICATION_EXCEPTION, "Error"},
     error_count : {None, "2", MAX_RETRY_COUNT},
     error : CallErrors,
     queue_element : {None, "elem"},
     exc_active : {TRUE}]

\* the inputs of handle_error when only the serialization is exercised
TruncLens == {0, 1} \cup (LongBase .. LongBase + LongSpread)

TruncArgs ==
    [message : {APPLICATION_EXCEPTION, "BusinessError", "Error"},
     error_count : {None, "2", MAX_RETRY_COUNT},
     error : {ErrorValue(k, n, p) :
                k \in ErrorKinds, n \in TruncLens, p \in 1..Len(Patterns)}
             \cup {ErrorValue("BusinessErrorClass", 0, 1)},
     queue_element : {None},
     exc_active : BOOLEAN]

ErrorDictOf(w) == ErrorDict(message[w], error_count[w], error[w], exc_active[w])

\* an incident as the table API creates it: state 1 (new), active, no comment
Incident(name) ==
    [name |-> name, state |-> 1, active |-> TRUE, comments |-> 0]

Resolved(inc) == [inc EXCEPT !.state = ResolvedState]

\* incident tables the ticketing system may hold when the worker starts
InitialTables ==
    { <<Incident("other")>>,
      <<Incident("proc"), Incident("other"), Incident("proc")>>,
      <<Resolved(Incident("proc")), Incident("proc")>> }

InitLocals ==
    /\ pc = [w \in Workers |-> "idle"]
    /\ caller = [w \in Workers |-> "none"]
    /\ message = [w \in Workers |-> "Error"]
    /\ error_count = [w \in Workers |-> None]
    /\ error = [w \in Workers |-> ErrorValue("Exception", 0, 1)]
    /\ queue_element = [w \in Workers |-> None]
    /\ exc_active = [w \in Workers |-> FALSE]
    /\ error_msg = [w \in Workers |-> <<>>]
    /\ queue = [w \in Workers |-> NewQueueElement]
    /\ effects = [w \in Workers |-> <<>>]
    /\ raised_at = [w \in Workers |-> None]
    /\ lookup_status = [w \in Workers |-> 0]
    /\ lookup_results = [w \in Workers |-> <<>>]
    /\ existing_incident_sys_id = [w \in Workers |-> NoSysId]
    /\ call_status = [w \in Workers |-> 0]
    /\ created = [w \in Workers |-> NoSysId]
    /\ lookup_failed = FALSE
    /\ ncalls = 0

Init ==
    /\ InitLocals
    /\ incidents \in InitialTables

-----------------------------------------------------------------------------
(* The decisions of handle_error *)

\* error != BusinessError: an exception instance never equals the class
SendsScreenshot(e) == e.kind # "BusinessErrorClass"

\* if queue_element:
MarksFailedInverted(q) == q = None

MarksFailed(q) == q # None

\* message == "ApplicationException" and error_count == config.MAX_RETRY_COUNT
ShouldEscalateEither(m, c) == m = APPLICATION_EXCEPTION \/ c = MAX_RETRY_COUNT

ShouldEscalate(m, c) == m = APPLICATION_EXCEPTION /\ c = MAX_RETRY_COUNT

Effect(tag) == <<tag, 0>>

Did(w, tag) == \E i \in 1..Len(effects[w]) : effects[w][i][1] = tag

Count(w, tag) == Cardinality({i \in 1..Len(effects[w]) : effects[w][i][1] = tag})

\* a call outside the try block raises: the exception leaves handle_error
Propagate(w, where) ==
    /\ pc' = [pc EXCEPT ![w] = "raised"]
    /\ raised_at' = [raised_at EXCEPT ![w] = IF @ = None THEN where ELSE @]

\* a call inside the try block raises: control passes to the except clause;
\* a directly invoked handle_incident raises to its caller
RaiseInEscalation(w, where) ==
    /\ pc' = [pc EXCEPT ![w] = IF caller[w] = "handle_error" THEN "except"
                                ELSE "raised"]
    /\ raised_at' = [raised_at EXCEPT ![w] = IF @ = None THEN where ELSE @]

\* handle_incident returns
ReturnFromIncident(w) ==
    pc' = [pc EXCEPT ![w] = IF caller[w] = "handle_error" THEN "log_trace_2"
                             ELSE "returned"]

ResetCall(w) ==
    /\ error_msg' = [error_msg EXCEPT ![w] = <<>>]
    /\ queue' = [queue EXCEPT ![w] = NewQueueElement]
    /\ effects' = [effects EXCEPT ![w] = <<>>]
    /\ raised_at' = [raised_at EXCEPT ![w] = None]
    /\ lookup_status' = [lookup_status EXCEPT ![w] = 0]
    /\ lookup_results' = [lookup_results EXCEPT ![w] = <<>>]
    /\ existing_incident_sys_id' = [existing_incident_sys_id EXCEPT ![w] = NoSysId]
    /\ call_status' = [call_status EXCEPT ![w] = 0]
    /\ created' = [created EXCEPT ![w] = NoSysId]
    /\ ncalls' = ncalls + 1

SetArgs(w, a) ==
    /\ message' = [message EXCEPT ![w] = a.message]
    /\ error_count' = [error_count EXCEPT ![w] = a.error_count]
    /\ error' = [error EXCEPT ![w] = a.error]
    /\ queue_element' = [queue_element EXCEPT ![w] = a.queue_element]
    /\ exc_active' = [exc_active EXCEPT ![w] = a.exc_active]

-----------------------------------------------------------------------------
(* handle_error, step by step *)

\* the framework calls handle_error with arguments drawn from A
HandleErrorEnter(w, A) ==
    /\ pc[w] \in Rest
    /\ ncalls < MaxCalls
    /\ \E a \in A : SetArgs(w, a)
    /\ ResetCall(w)
    /\ pc' = [pc EXCEPT ![w] = "build"]
    /\ caller' = [caller EXCEPT ![w] = "handle_error"]
    /\ UNCHANGED <<incidents, lookup_failed>>

\* error_dict, json.dumps and the shortening
BuildReport(w) ==
    /\ pc[w] = "build"
    /\ error_msg' = [error_msg EXCEPT ![w] = Shorten(JsonDumps(ErrorDictOf(w)))]
    /\ pc' = [pc EXCEPT ![w] = "get_constant"]
    /\ UNCHANGED <<caller, args, queue, effects, raised_at, http, created,
                   incidents, lookup_failed, ncalls>>

\* orchestrator_connection.get_constant(config.ERROR_EMAIL)
GetConstant(w) ==
    /\ pc[w] = "get_constant"
    /\ \/ /\ pc' = [pc EXCEPT ![w] = "log_error"]
          /\ UNCHANGED raised_at
       \/ Propagate(w, "get_constant")
    /\ UNCHANGED <<caller, args, error_msg, queue, effects, http, created,
                   incidents, lookup_failed, ncalls>>

\* orchestrator_connection.log_error(error_msg)
LogError(w) ==
    /\ pc[w] = "log_error"
    /\ \/ /\ effects' = [effects EXCEPT ![w] = Append(@, Effect("log_error"))]
          /\ pc' = [pc EXCEPT ![w] = "set_status"]
          /\ UNCHANGED raised_at
       \/ /\ Propagate(w, "log_error")
          /\ UNCHANGED effects
    /\ UNCHANGED <<caller, args, error_msg, queue, http, created,
                   incidents, lookup_failed, ncalls>>

\* if queue_element: set_queue_element_status(id, QueueStatus.FAILED, error_msg)
SetStatus(w) ==
    /\ pc[w] = "set_status"
    /\ IF MarksFailed(queue_element[w])
       THEN \/ /\ queue' = [queue EXCEPT ![w] =
                              [status |-> "FAILED", message |-> error_msg[w]]]
               /\ effects' = [effects EXCEPT ![w] = Append(@, Effect("set_status"))]
               /\ pc' = [pc EXCEPT ![w] = "screenshot"]
               /\ UNCHANGED raised_at
            \/ /\ Propagate(w, "set_status")
               /\ UNCHANGED <<queue, effects>>
       ELSE /\ pc' = [pc EXCEPT ![w] = "screenshot"]
            /\ UNCHANGED <<queue, effects, raised_at>>
    /\ UNCHANGED <<caller, args, error_msg, http, created,
                   incidents, lookup_failed, ncalls>>

\* if error != BusinessError: send_error_screenshot(...)
Screenshot(w) ==
    /\ pc[w] = "screenshot"
    /\ IF SendsScreenshot(error[w])
       THEN \/ /\ effects' = [effects EXCEPT ![w] = Append(@, Effect("screenshot"))]
               /\ pc' = [pc EXCEPT ![w] = "escalate"]
               /\ UNCHANGED raised_at
            \/ /\ Propagate(w, "screenshot")
               /\ UNCHANGED effects
       ELSE /\ pc' = [pc EXCEPT ![w] = "escalate"]
            /\ UNCHANGED <<effects, raised_at>>
    /\ UNCHANGED <<caller, args, error_msg, queue, http, created,
                   incidents, lookup_failed, ncalls>>

\* the condition of the escalation
Escalate(w) ==
    /\ pc[w] = "escalate"
    /\ pc' = [pc EXCEPT ![w] = IF ShouldEscalate(message[w], error_count[w])
                                THEN "log_trace_1" ELSE "returned"]
    /\ UNCHANGED <<caller, args, error_msg, queue, effects, raised_at, http,
                   created, incidents, lookup_failed, ncalls>>

\* try: log_trace("ApplicationException caught. ...")
LogTrace1(w) ==
    /\ pc[w] = "log_trace_1"
    /\ \/ /\ effects' = [effects EXCEPT ![w] = Append(@, Effect("log_trace"))]
          /\ pc' = [pc EXCEPT ![w] = "handle_incident"]
          /\ UNCHANGED raised_at
       \/ /\ RaiseInEscalation(w, "log_trace_1")
          /\ UNCHANGED effects
    /\ UNCHANGED <<caller, args, error_msg, queue, http, created,
                   incidents, lookup_failed, ncalls>>

\* log_trace("ServiceNow incident handled.")
LogTrace2(w) ==
    /\ pc[w] = "log_trace_2"
    /\ \/ /\ effects' = [effects EXCEPT ![w] = Append(@, Effect("log_trace"))]
          /\ pc' = [pc EXCEPT ![w] = "returned"]
          /\ UNCHANGED raised_at
       \/ /\ RaiseInEscalation(w, "log_trace_2")
          /\ UNCHANGED effects
    /\ UNCHANGED <<caller, args, error_msg, queue, http, created,
                   incidents, lookup_failed, ncalls>>

\* except Exception: print(...); log_error("Failed to create ServiceNow incident...")
Except(w) ==
    /\ pc[w] = "except"
    /\ \/ /\ effects' = [effects EXCEPT ![w] = Append(@, Effect("log_failure"))]
          /\ pc' = [pc EXCEPT ![w] = "returned"]
       \/ /\ pc' = [pc EXCEPT ![w] = "raised"]
          /\ UNCHANGED effects
    /\ UNCHANGED <<caller, args, error_msg, queue, raised_at, http, created,
                   incidents, lookup_failed, ncalls>>

-----------------------------------------------------------------------------
(* The ticketing system's incident table, as the handler sees it *)

GetStatuses == {200, 500}
PutStatuses == {200, 500}
PostStatuses == {200, 201, 500}

\* the table API carries out a request it answers with 200 or 201
Accepted(status) == status \in {200, 201}

\* short_descriptionLIKE{process_name}^active=true^state!=6
MatchesResolved(inc, name) ==
    inc.name = name /\ inc.active /\ inc.state = ResolvedState

Matches(inc, name) ==
    inc.name = name /\ inc.active /\ inc.state # ResolvedState

RECURSIVE Descending(_)
Descending(S) ==
    IF S = {} THEN <<>>
    ELSE LET m == CHOOSE x \in S : \A y \in S : y <= x
         IN <<m>> \o Descending(S \ {m})

\* ...^ORDERBYDESCsys_created_on, sysparm_limit=50: sys_ids, newest first
Query(name) ==
    SliceHead(Descending({i \in DOMAIN incidents : Matches(incidents[i], name)}),
              SysparmLimit)

\* what get_incident returns for a response
ExistingSysIdOldest(status, results) ==
    IF status = 200
    THEN IF results # <<>> THEN SysId(results[Len(results)]) ELSE NoSysId
    ELSE NoSysId

ExistingSysId(status, results) ==
    IF status = 200
    THEN IF results # <<>> THEN SysId(results[1]) ELSE NoSysId
    ELSE NoSysId

\* if existing_incident_sys_id: update_incident(...) else: post_incident(...)
BranchNoCreate(existing) ==
    IF existing # NoSysId THEN "update_incident" ELSE "done"

Branch(existing) ==
    IF existing # NoSysId THEN "update_incident" ELSE "post_incident"

\* what update_incident and post_incident do with a response
ResponseResultRaising(status) == IF status = 200 THEN "result" ELSE "raise"

ResponseResult(status) == IF status = 200 THEN "result" ELSE "none"

AfterResponse(w, status) ==
    LET r == ResponseResult(status)
    IN  IF r = "raise"
        THEN RaiseInEscalation(w, "status")
        ELSE ReturnFromIncident(w) /\ UNCHANGED raised_at

-----------------------------------------------------------------------------
(* handle_incident, step by step *)

\* the escalating arguments with which handle_incident is invoked directly
DirectArgs ==
    [message : {APPLICATION_EXCEPTION}, error_count : {MAX_RETRY_COUNT},
     error : {ErrorValue("Exception", 1, 1)}, queue_element : {None},
     exc_active : {TRUE}]

\* an instance invokes handle_incident; exclusive: no other invocation is running
Invoke(w, exclusive) ==
    /\ pc[w] \in Rest
    /\ exclusive => \A v \in Workers : pc[v] \in Rest
    /\ ncalls < MaxCalls
    /\ \E a \in DirectArgs : SetArgs(w, a)
    /\ ResetCall(w)
    /\ pc' = [pc EXCEPT ![w] = "handle_incident"]
    /\ caller' = [caller EXCEPT ![w] = "direct"]
    /\ UNCHANGED <<incidents, lookup_failed>>

\* handle_incident is entered: get_incident and the branch on what it returns
HandleIncident(w) ==
    /\ pc[w] = "handle_incident"
    /\ \/ /\ effects' = [effects EXCEPT ![w] = Append(@, Effect("handle_incident"))]
          /\ RaiseInEscalation(w, "get_credential_get")
          /\ UNCHANGED <<lookup, lookup_failed>>
       \/ /\ effects' = [effects EXCEPT ![w] =
                           @ \o <<Effect("handle_incident"), Effect("GET")>>]
          /\ RaiseInEscalation(w, "requests.get")
          /\ UNCHANGED <<lookup, lookup_failed>>
       \/ \E status \in GetStatuses :
            LET results == IF status = 200 THEN Query(ProcessName(w)) ELSE <<>>
                existing == ExistingSysId(status, results)
            IN  /\ effects' = [effects EXCEPT ![w] =
                                 @ \o <<Effect("handle_incident"), Effect("GET")>>]
                /\ lookup_status' = [lookup_status EXCEPT ![w] = status]
                /\ lookup_results' = [lookup_results EXCEPT ![w] = results]
                /\ existing_incident_sys_id' =
                     [existing_incident_sys_id EXCEPT ![w] = existing]
                /\ lookup_failed' = (lookup_failed \/ status # 200)
                /\ IF Branch(existing) = "done"
                   THEN ReturnFromIncident(w)
                   ELSE pc' = [pc EXCEPT ![w] = Branch(existing)]
                /\ UNCHANGED raised_at
    /\ UNCHANGED <<caller, args, error_msg, queue, call_status, created,
                   incidents, ncalls>>

\* update_incident: PUT /incident/{existing_incident_sys_id} with a comment
UpdateIncident(w) ==
    /\ pc[w] = "update_incident"
    /\ \/ /\ RaiseInEscalation(w, "get_credential_put")
          /\ UNCHANGED <<effects, incidents, call_status>>
       \/ /\ effects' = [effects EXCEPT ![w] =
                           Append(@, <<"PUT", existing_incident_sys_id[w][1]>>)]
          /\ RaiseInEscalation(w, "requests.put")
          /\ UNCHANGED <<incidents, call_status>>
       \/ \E status \in PutStatuses :
            /\ call_status' = [call_status EXCEPT ![w] = status]
            /\ effects' = [effects EXCEPT ![w] =
                             Append(@, <<"PUT", existing_incident_sys_id[w][1]>>)]
            /\ incidents' =
                 IF Accepted(status)
                 THEN [incidents EXCEPT ![existing_incident_sys_id[w][1]].comments = @ + 1]
                 ELSE incidents
            /\ AfterResponse(w, status)
    /\ UNCHANGED <<caller, args, error_msg, queue, lookup, created,
                   lookup_failed, ncalls>>

\* post_incident, were it to look the incident up again before it creates one
PostIncidentRechecks(w) ==
    /\ pc[w] = "post_incident"
    /\ \/ /\ RaiseInEscalation(w, "get_credential_post")
          /\ UNCHANGED <<effects, incidents, created, call_status>>
       \/ /\ effects' = [effects EXCEPT ![w] = Append(@, Effect("POST"))]
          /\ RaiseInEscalation(w, "requests.post")
          /\ UNCHANGED <<incidents, created, call_status>>
       \/ \E status \in PostStatuses :
            /\ call_status' = [call_status EXCEPT ![w] = status]
            /\ effects' = [effects EXCEPT ![w] = Append(@, Effect("POST"))]
            /\ IF Accepted(status) /\ Query(ProcessName(w)) = <<>>
               THEN /\ incidents' = Append(incidents, Incident(ProcessName(w)))
                    /\ created' = [created EXCEPT ![w] = SysId(Len(incidents) + 1)]
               ELSE UNCHANGED <<incidents, created>>
            /\ AfterResponse(w, status)
    /\ UNCHANGED <<caller, args, error_msg, queue, lookup, lookup_failed, ncalls>>

\* post_incident: POST /incident with a new incident for the process
PostIncident(w) ==
    /\ pc[w] = "post_incident"
    /\ \/ /\ RaiseInEscalation(w, "get_credential_post")
          /\ UNCHANGED <<effects, incidents, created, call_status>>
       \/ /\ effects' = [effects EXCEPT ![w] = Append(@, Effect("POST"))]
          /\ RaiseInEscalation(w, "requests.post")
          /\ UNCHANGED <<incidents, created, call_status>>
       \/ \E status \in PostStatuses :
            /\ call_status' = [call_status EXCEPT ![w] = status]
            /\ effects' = [effects EXCEPT ![w] = Append(@, Effect("POST"))]
            /\ IF Accepted(status)
               THEN /\ incidents' = Append(incidents, Incident(ProcessName(w)))
                    /\ created' = [created EXCEPT ![w] = SysId(Len(incidents) + 1)]
               ELSE UNCHANGED <<incidents, created>>
            /\ AfterResponse(w, status)
    /\ UNCHANGED <<caller, args, error_msg, queue, lookup, lookup_failed, ncalls>>

\* somebody resolves an open incident of the process in the ticketing system
Resolve(i) ==
    /\ incidents[i].name = "proc"
    /\ incidents[i].state # ResolvedState
    /\ incidents' = [incidents EXCEPT ![i] = Resolved(@)]
    /\ UNCHANGED <<pc, caller, args, error_msg, queue, effects, raised_at,
                   http, created, lookup_failed, ncalls>>

-----------------------------------------------------------------------------
(* Specifications *)

HandleErrorStep(w) ==
    \/ BuildReport(w)
    \/ GetConstant(w)
    \/ LogError(w)
    \/ SetStatus(w)
    \/ Screenshot(w)
    \/ Escalate(w)
    \/ LogTrace1(w)
    \/ LogTrace2(w)
    \/ Except(w)

HandleIncidentStep(w) ==
    \/ HandleIncident(w)
    \/ UpdateIncident(w)
    \/ PostIncident(w)

\* one worker reports failures one after the other
Next ==
    \/ HandleErrorEnter(MainWorker, CallArgs)
    \/ HandleErrorStep(MainWorker)
    \/ HandleIncidentStep(MainWorker)
    \/ \E i \in DOMAIN incidents : Resolve(i)

Spec == Init /\ [][Next]_vars

\* no incident of the process is open at the start
InitNoneOpen ==
    /\ InitLocals
    /\ incidents \in { <<Incident("other")>>,
                       <<Incident("other"), Resolved(Incident("proc"))>> }

\* instances invoke handle_incident one at a time
NextSeq ==
    \/ \E w \in Workers : Invoke(w, TRUE)
    \/ \E w \in Workers : HandleIncidentStep(w)
    \/ \E i \in DOMAIN incidents : Resolve(i)

SpecSeq == InitNoneOpen /\ [][NextSeq]_vars

\* instances invoke handle_incident concurrently
NextRace ==
    \/ \E w \in Workers : Invoke(w, FALSE)
    \/ \E w \in Workers : HandleIncidentStep(w)
    \/ \E i \in DOMAIN incidents : Resolve(i)

SpecRace == InitNoneOpen /\ [][NextRace]_vars

\* only the report is built, for a wide range of inputs
InitTrunc ==
    /\ InitLocals
    /\ incidents = <<Incident("other")>>

NextTrunc ==
    \/ HandleErrorEnter(MainWorker, TruncArgs)
    \/ BuildReport(MainWorker)

SpecTrunc == InitTrunc /\ [][NextTrunc]_vars

-----------------------------------------------------------------------------
(* Vocabulary of the properties *)

InHandleError(w) == caller[w] = "handle_error"

\* handle_error has ended: it returned, or an exception left it
Ended(w) == pc[w] \in {"returned", "raised"}

\* the calls of handle_error that come before the call of handle_incident
BeforeIncidentCall ==
    {"get_constant", "log_error", "set_status", "screenshot", "log_trace_1"}

\* the calls of handle_error that come before the escalation step
BeforeEscalation == {"get_constant", "log_error", "set_status", "screenshot"}

\* positions of handle_error after the queue element's status has been set
AfterSetStatus ==
    {"screenshot", "escalate", "log_trace_1", "handle_incident", "update_incident",
     "post_incident", "log_trace_2", "except", "returned", "raised"}

IsBusinessError(e) == e.kind \in {"BusinessError", "BusinessErrorClass"}

\* the lookup of the current invocation has been answered
LookupAnswered(w) == lookup_status[w] # 0

\* the invocation is past get_incident and the branch, and past the call chosen
PastCall(w) ==
    LookupAnswered(w) /\ pc[w] \notin {"handle_incident", "update_incident", "post_incident"}

\* exactly one create call and no update call, up to where the invocation stands
CreatesOnly(w) ==
    /\ Count(w, "PUT") = 0
    /\ pc[w] # "update_incident"
    /\ Count(w, "POST") <= 1
    /\ pc[w] = "post_incident" => Count(w, "POST") = 0
    /\ (PastCall(w) /\ raised_at[w] # "get_credential_post") => Count(w, "POST") = 1

\* exactly one update call, to sys_id i, and no create call
UpdatesOnly(w, i) ==
    /\ Count(w, "POST") = 0
    /\ pc[w] # "post_incident"
    /\ Count(w, "PUT") <= 1
    /\ \A k \in 1..Len(effects[w]) : effects[w][k][1] = "PUT" => effects[w][k][2] = i
    /\ pc[w] = "update_incident" => Count(w, "PUT") = 0
    /\ (PastCall(w) /\ raised_at[w] # "get_credential_put") => Count(w, "PUT") = 1

OpenIncidents(name) ==
    {i \in DOMAIN incidents :
        incidents[i].name = name /\ incidents[i].state # ResolvedState}

-----------------------------------------------------------------------------
(* Properties *)

\* C1: handle_incident is invoked by a call of handle_error only if message is
\* "ApplicationException" and error_count is the maximum retry count, and at most
\* once; and a call with these arguments that has ended has invoked it, unless
\* one of the calls that precede the invocation raised.
C1_EscalationIffCondition ==
    \A w \in Workers : InHandleError(w) =>
        LET cond == message[w] = "ApplicationException"
                    /\ error_count[w] = MAX_RETRY_COUNT
        IN  /\ Did(w, "handle_incident") => cond
            /\ ~cond => pc[w] \notin {"log_trace_1", "handle_incident",
                                      "update_incident", "post_incident",
                                      "log_trace_2", "except"}
            /\ Count(w, "handle_incident") <= 1
            /\ (Ended(w) /\ cond /\ raised_at[w] \notin BeforeIncidentCall)
                 => Did(w, "handle_incident")

C1_Witness ==
    /\ InHandleError(MainWorker)
    /\ pc[MainWorker] = "returned"
    /\ raised_at[MainWorker] = None
    /\ Did(MainWorker, "handle_incident")

\* C2 (as claimed): once the e-mail step of handle_error is passed, the screenshot
\* e-mail has been sent if and only if the error is not a BusinessError.
C2_ScreenshotIffNotBusinessError ==
    \A w \in Workers : (InHandleError(w) /\ pc[w] = "escalate") =>
        (Did(w, "screenshot") <=> ~IsBusinessError(error[w]))

\* C3: a lookup answered 200 with at least one result is followed by one PUT to the
\* first result's sys_id and by no POST; a lookup answered 200 with no result is
\* followed by one POST and by no PUT (the call is missing only if fetching the
\* credentials for it raised).
C3_UpdateFirstResultElseCreate ==
    \A w \in Workers : lookup_status[w] = 200 =>
        IF lookup_results[w] # <<>>
        THEN UpdatesOnly(w, lookup_results[w][1])
        ELSE CreatesOnly(w)

C3_Witness ==
    /\ lookup_status[MainWorker] = 200
    /\ Len(lookup_results[MainWorker]) = 2
    /\ lookup_results[MainWorker][1] # lookup_results[MainWorker][2]
    /\ PastCall(MainWorker)
    /\ Count(MainWorker, "PUT") = 1

\* C4 (as claimed): an exception leaves handle_error only if it was raised by a call
\* that precedes the escalation step.
C4_EscalationNeverPropagates ==
    \A w \in Workers : (InHandleError(w) /\ pc[w] = "raised") =>
        raised_at[w] \in BeforeEscalation

\* C5: a lookup answered with another status than 200 gives no incident id, and is
\* followed by one POST and by no PUT, as a lookup answered 200 with no result is.
C5_LookupFailureCreates ==
    \A w \in Workers : (LookupAnswered(w) /\ lookup_status[w] # 200) =>
        /\ existing_incident_sys_id[w] = NoSysId
        /\ lookup_results[w] = <<>>
        /\ CreatesOnly(w)

C5_Witness ==
    /\ lookup_status[MainWorker] = 500
    /\ OpenIncidents("proc") # {}
    /\ PastCall(MainWorker)
    /\ Count(MainWorker, "POST") = 1
    /\ Count(MainWorker, "PUT") = 0

\* C6: when handle_error has a queue element and is past the status step, the
\* element is failed with the shortened message, whatever the message and the error
\* are; the status is set right after the error is logged and before any e-mail,
\* trace or incident call.
C6_QueueElementFailed ==
    \A w \in Workers : InHandleError(w) =>
        /\ (queue_element[w] # None
            /\ pc[w] \in AfterSetStatus
            /\ raised_at[w] \notin {"get_constant", "log_error", "set_status"})
             => /\ queue[w] = [status |-> "FAILED", message |-> error_msg[w]]
                /\ Len(error_msg[w]) <= MaxMsgLen
                /\ Len(effects[w]) >= 2
                /\ effects[w][1][1] = "log_error"
                /\ effects[w][2][1] = "set_status"
        /\ \A k \in 1..Len(effects[w]) :
             effects[w][k][1] = "set_status" => k = 2
        /\ queue[w].status = "FAILED" => Did(w, "set_status")
        /\ queue_element[w] = None => queue[w] = NewQueueElement

C6_Witness ==
    /\ InHandleError(MainWorker)
    /\ pc[MainWorker] = "returned"
    /\ queue_element[MainWorker] # None
    /\ message[MainWorker] = "Error"
    /\ error[MainWorker].kind = "BusinessError"
    /\ queue[MainWorker].status = "FAILED"
    /\ Did(MainWorker, "screenshot")

\* C7: a serialized report longer than 1000 characters is stored as its first 500
\* characters, the marker "  [...] " and its last 490 characters, in at most 1000
\* characters plus the marker; a report of at most 1000 characters is stored as is.
C7_StoredMessage ==
    \A w \in Workers : (InHandleError(w) /\ pc[w] = "get_constant") =>
        LET json == JsonDumps(ErrorDictOf(w))
            stored == error_msg[w]
            marker == <<" ", " ", "[", ".", ".", ".", "]", " ">>
        IN  IF Len(json) > 1000
            THEN /\ Len(stored) = 500 + Len(marker) + 490
                 /\ \A i \in 1..500 : stored[i] = json[i]
                 /\ \A i \in 1..Len(marker) : stored[500 + i] = marker[i]
                 /\ \A i \in 1..490 :
                      stored[500 + Len(marker) + i] = json[Len(json) - 490 + i]
                 /\ Len(stored) <= 1000 + Len(marker)
            ELSE stored = json

C7_Witness ==
    /\ InHandleError(MainWorker)
    /\ pc[MainWorker] = "get_constant"
    /\ Len(JsonDumps(ErrorDictOf(MainWorker))) = 1001
    /\ Len(error_msg[MainWorker]) = 998

\* C8 (as claimed): with invocations one at a time, at most one incident of the
\* process is open.
C8_AtMostOneOpen == Cardinality(OpenIncidents("proc")) <= 1

\* C8 (amended): with invocations one at a time, at most one incident of the process
\* is open as long as every lookup has been answered 200; an invocation whose lookup
\* finds an open incident creates none.
C8_AtMostOneOpenWhileLookupsSucceed ==
    /\ ~lookup_failed => Cardinality(OpenIncidents("proc")) <= 1
    /\ \A w \in Workers :
         (lookup_status[w] = 200 /\ lookup_results[w] # <<>>) => created[w] = NoSysId

C8_Witness ==
    /\ ~lookup_failed
    /\ Cardinality(OpenIncidents("proc")) = 1
    /\ \E i \in DOMAIN incidents :
         /\ incidents[i].name = "proc"
         /\ incidents[i].state = ResolvedState
         /\ i > 2
    /\ \E w \in Workers : created[w] # NoSysId /\ pc[w] = "returned"

\* C9: two invocations whose lookups were both answered "no incident" and whose
\* create calls were both accepted have each created an incident of the process of
\* their own: nothing makes the second create call find the first one's incident.
C9_BothCreate ==
    \A w1, w2 \in Workers :
        (/\ w1 # w2
         /\ lookup_status[w1] = 200 /\ lookup_results[w1] = <<>>
         /\ lookup_status[w2] = 200 /\ lookup_results[w2] = <<>>
         /\ Accepted(call_status[w1]) /\ Accepted(call_status[w2]))
        => /\ created[w1] # NoSysId
           /\ created[w2] # NoSysId
           /\ created[w1] # created[w2]
           /\ incidents[created[w1][1]].name = "proc"
           /\ incidents[created[w2][1]].name = "proc"

C9_Witness ==
    /\ \E w1, w2 \in Workers :
         /\ w1 # w2
         /\ lookup_status[w1] = 200 /\ lookup_results[w1] = <<>>
         /\ lookup_status[w2] = 200 /\ lookup_results[w2] = <<>>
         /\ Count(w1, "POST") = 1 /\ Count(w2, "POST") = 1
         /\ created[w1] # NoSysId /\ created[w2] # NoSysId
         /\ {created[w1][1], created[w2][1]} \subseteq OpenIncidents("proc")
    /\ Cardinality(OpenIncidents("proc")) = 2
    /\ ~lookup_failed

\* C10: an invocation whose PUT or POST has been answered, with whatever status, has
\* made exactly one call after the lookup, and handle_incident has returned: no
\* second call, and no exception from the status.
C10_OneCallNoRetryNoRaise ==
    \A w \in Workers :
        /\ Count(w, "PUT") + Count(w, "POST") <= 1
        /\ call_status[w] # 0 =>
             /\ Count(w, "PUT") + Count(w, "POST") = 1
             /\ Count(w, "GET") = 1
             /\ pc[w] \notin {"handle_incident", "update_incident", "post_incident"}
             /\ raised_at[w] \in {None, "log_trace_2"}
             /\ (pc[w] = "raised" => InHandleError(w))
             /\ (pc[w] = "except" => raised_at[w] = "log_trace_2")

C10_Witness ==
    /\ InHandleError(MainWorker)
    /\ call_status[MainWorker] = 500
    /\ pc[MainWorker] = "returned"
    /\ raised_at[MainWorker] = None
    /\ Count(MainWorker, "POST") = 1
    /\ Len(effects[MainWorker]) > 0
    /\ effects[MainWorker][Len(effects[MainWorker])][1] = "log_trace"

====
